---- MODULE Spec2Model ----
(***************************************************************************)
(* Model of src/app.py: a read-only Flask/flask_restful facade over a      *)
(* Google spreadsheet.  Requests are validated against a static            *)
(* API-key -> school registry, tables are fetched (some through            *)
(* flask_caching's @cache.cached(timeout=300), two of them by a fan-out of *)
(* worker threads), rows are filtered and shaped into a JSON response.     *)
(*                                                                         *)
(* Python strings that the code splits, strips or compares (ids, school    *)
(* names, table cells) are sequences of one-character strings, so that     *)
(* str.split(",") and str.strip() are computed, not assumed.  API keys,    *)
(* table names, messages and field names are opaque and stay TLA+ strings. *)
(* None and "" are both the empty sequence: the code only ever tests them  *)
(* for truthiness (`a or b`, `if x`, `not x`).                             *)
(***************************************************************************)
EXTENDS Integers, Sequences, FiniteSets, TLC

VARIABLES
    tables,        \* spreadsheet: worksheet name -> rows (header row first)
    down,          \* worksheets whose open/get_all_values currently raises
    now,           \* time() in seconds
    cache,         \* SimpleCache._cache: cache key -> [value, expires]
    req,           \* the request being answered (path and query args)
    resp,          \* the response returned for req
    fetched,       \* worksheets fetched remotely while answering req
    ccall,         \* the cached function call made while answering req
    served,        \* number of requests answered so far
    vcall,         \* a direct call of validate_api_key_and_student
    fcall,         \* multi-table fetch in progress: which cached function
    mainPc,        \* ... position of the calling thread
    started,       \* ... number of worker threads started so far
    wPc,           \* ... position of each worker thread
    wData,         \* ... each worker's local `data`
    wFailed,       \* ... workers whose fetch raised
    lock,          \* ... holder of `lock` (get_student_scores only)
    sheets_data,   \* ... the shared dict, as (key, value) pairs in insertion order
    ret            \* ... the dict as it was when the function returned

vars == <<tables, down, now, cache, req, resp, fetched, ccall, served, vcall,
          fcall, mainPc, started, wPc, wData, wFailed, lock, sheets_data, ret>>

serverVars == <<now, cache, req, resp, fetched, ccall, served>>
fetchVars == <<fcall, mainPc, started, wPc, wData, wFailed, lock, sheets_data, ret>>

----------------------------------------------------------------------------
(* Bounds of the model *)

MaxRosterRows == 2     \* data rows of roster_data enumerated for validation
MaxIds == 2            \* length of the student_ids lists enumerated
MaxRequests == 2       \* requests answered in one behaviour
MaxTime == 300         \* the clock stops here

----------------------------------------------------------------------------
(* Python helpers *)

None == <<>>

Range(s) == {s[i] : i \in 1..Len(s)}

\* x in s, for a list s
InList(x, s) == \E i \in 1..Len(s) : s[i] = x

\* a or b, on strings / None
PyOr(a, b) == IF a # <<>> THEN a ELSE b

\* s[1:]
PyTail(s) == IF s = <<>> THEN <<>> ELSE Tail(s)

\* s.strip(): leading and trailing blanks removed
RECURSIVE LStrip(_)
LStrip(s) == IF s # <<>> /\ Head(s) = " " THEN LStrip(Tail(s)) ELSE s

RECURSIVE RStrip(_)
RStrip(s) ==
    IF s # <<>> /\ s[Len(s)] = " " THEN RStrip(SubSeq(s, 1, Len(s) - 1)) ELSE s

Strip(s) == RStrip(LStrip(s))

\* s.split(","): the pieces between commas, empty pieces kept
RECURSIVE SplitFrom(_, _)
SplitFrom(s, cur) ==
    IF s = <<>> THEN <<cur>>
    ELSE IF Head(s) = "," THEN <<cur>> \o SplitFrom(Tail(s), <<>>)
    ELSE SplitFrom(Tail(s), Append(cur, Head(s)))

Split(s) == SplitFrom(s, <<>>)

\* [f(x) for x in s]
MapStrip(s) == [i \in 1..Len(s) |-> Strip(s[i])]

\* sequences over S of length at most n
SeqUpTo(S, n) == UNION {[1..k -> S] : k \in 0..n}

----------------------------------------------------------------------------
(* API key registry (app.py 47-53) *)

MedSchoolA == <<"A">>
MedSchoolB == <<"B">>
MedSchoolC == <<"C">>
MedSchoolD == <<"D">>
MasterKey == <<"M">>

KeyA == "003fb7e922cd6595f4243703b7d3a32f"
KeyB == "2d7ebd0c14a5c41d18172341920cd222"
KeyC == "9198340729aae63e06785df4cd61d8b2"
KeyD == "20e8b4cad8f774a7bbe076029ba3a38c"
KeyMaster == "a71ed21d7da1aead4e5088827d1c67fc"

API_KEYS ==
    (KeyA :> MedSchoolA) @@ (KeyB :> MedSchoolB) @@ (KeyC :> MedSchoolC) @@
    (KeyD :> MedSchoolD) @@ (KeyMaster :> MasterKey)

\* a key that is not registered (an absent api_key behaves the same)
KeyBogus == "ffffffffffffffffffffffffffffffff"

----------------------------------------------------------------------------
(* The spreadsheet *)

Sheets == {"roster_data", "exam_stats", "se_scores", "cas_scores",
           "nsas_scores", "usmle_results"}

RosterHeader == <<<<"h">>, <<"h">>, <<"h">>, <<"h">>>>

\* a roster row: school, student id, first name, last name
RosterRow(school, sid) == <<school, sid, <<"f">>, <<"l">>>>

\* client.open_by_key(SPREADSHEET_ID).worksheet(name).get_all_values():
\* the rows, or an exception when the worksheet cannot be opened or read
Readable(src, name) == name \notin src.down
GetAllValues(src, name) == src.tables[name]

----------------------------------------------------------------------------
(* validate_api_key_and_student (app.py 56-70) *)

Verdict(valid, message) ==
    [valid |-> valid, message |-> message, raised |-> FALSE]
Raised == [valid |-> FALSE, message |-> "", raised |-> TRUE]

MsgInvalidKey == "Invalid API key."
MsgAccessDenied == "Access denied."
MsgUnknownStudent == "One or more students do not belong to the provided school."

\* set(row[1] for row in data[1:] if row[0] == school_id)
ValidStudents(data, school_id) ==
    {r[2] : r \in {x \in Range(PyTail(data)) : x[1] = school_id}}

validate_api_key_and_student_nomaster(api_key, school_id, student_ids, src) ==
    IF api_key \notin DOMAIN API_KEYS THEN Verdict(FALSE, MsgInvalidKey)
    ELSE IF API_KEYS[api_key] # school_id THEN Verdict(FALSE, MsgAccessDenied)
    ELSE IF student_ids # <<>>
    THEN IF ~Readable(src, "roster_data") THEN Raised
         ELSE IF \E i \in 1..Len(student_ids) :
                    student_ids[i] \notin
                        ValidStudents(GetAllValues(src, "roster_data"), school_id)
              THEN Verdict(FALSE, MsgUnknownStudent)
              ELSE Verdict(TRUE, "")
    ELSE Verdict(TRUE, "")

validate_api_key_and_student(api_key, school_id, student_ids, src) ==
    IF api_key \notin DOMAIN API_KEYS THEN Verdict(FALSE, MsgInvalidKey)
    ELSE IF API_KEYS[api_key] # MasterKey /\ API_KEYS[api_key] # school_id
    THEN Verdict(FALSE, MsgAccessDenied)
    ELSE IF student_ids # <<>>
    THEN IF ~Readable(src, "roster_data") THEN Raised
         ELSE IF \E i \in 1..Len(student_ids) :
                    student_ids[i] \notin
                        ValidStudents(GetAllValues(src, "roster_data"), school_id)
              THEN Verdict(FALSE, MsgUnknownStudent)
              ELSE Verdict(TRUE, "")
    ELSE Verdict(TRUE, "")

\* worksheets validate fetches: the roster, when it gets that far
ValidateFetches(api_key, school_id, student_ids) ==
    IF /\ api_key \in DOMAIN API_KEYS
       /\ (API_KEYS[api_key] = MasterKey \/ API_KEYS[api_key] = school_id)
       /\ student_ids # <<>>
    THEN {"roster_data"} ELSE {}

----------------------------------------------------------------------------
(* flask_caching: @cache.cached(timeout=300) over the 'simple' backend *)

CACHE_TIMEOUT == 300

\* cached() is used without key_prefix, so the key is the default
\* key_prefix "view/%s" formatted with request.path: one entry per request
\* path, whatever the query string and whatever function is decorated
CacheKey(path) == <<"view/", path>>

\* SimpleCache.get finds a value: the key is stored and expires > time()
CacheLiveNoExpiry(c, key, t) == key \in DOMAIN c

CacheLive(c, key, t) == key \in DOMAIN c /\ c[key].expires > t

\* SimpleCache.set(key, value, timeout=300)
CacheSet(c, key, value, t) ==
    (key :> [value |-> value, expires |-> t + CACHE_TIMEOUT]) @@ c

\* what the call of a decorated function gave its caller (kept in ccall)
NoCachedCall == [made |-> FALSE, raised |-> FALSE, value |-> <<>>]
CallMade(raised, value) == [made |-> TRUE, raised |-> raised, value |-> value]

\* the decorated function called while answering a request to `path`;
\* prod is what the undecorated function does now: [raised, value, fetched].
\* The backend pickles on set and unpickles on get: for lists and dicts of
\* strings the caller gets an equal copy.
CachedCall(st, path, prod) ==
    IF CacheLive(st.cache, CacheKey(path), st.now)
    THEN [raised |-> FALSE, value |-> st.cache[CacheKey(path)].value,
          cache |-> st.cache, fetched |-> {},
          call |-> CallMade(FALSE, st.cache[CacheKey(path)].value)]
    ELSE IF prod.raised
    THEN [raised |-> TRUE, value |-> <<>>, cache |-> st.cache,
          fetched |-> prod.fetched, call |-> CallMade(TRUE, <<>>)]
    ELSE [raised |-> FALSE, value |-> prod.value,
          cache |-> CacheSet(st.cache, CacheKey(path), prod.value, st.now),
          fetched |-> prod.fetched, call |-> CallMade(FALSE, prod.value)]

\* a handler that returns before calling any cached function
Uncached(st) == [cache |-> st.cache, call |-> NoCachedCall]

Returns(value, sheets) == [raised |-> FALSE, value |-> value, fetched |-> sheets]
Raises(sheets) == [raised |-> TRUE, value |-> <<>>, fetched |-> sheets]

----------------------------------------------------------------------------
(* Responses *)

\* jsonify(list)
JsonList(records) ==
    [status |-> 200, kind |-> "list", records |-> records, message |-> ""]
\* jsonify({"error": message})
JsonError(message) ==
    [status |-> 200, kind |-> "error", records |-> <<>>, message |-> message]
\* jsonify of another object ({"status": "ok"}, {"message": ...})
JsonObject(message) ==
    [status |-> 200, kind |-> "object", records |-> <<>>, message |-> message]
\* an exception leaves the handler: Flask answers 500 Internal Server Error
ServerError ==
    [status |-> 500, kind |-> "exception", records |-> <<>>, message |-> ""]

\* jsonify(x if x else {"error": message})
ListOrError(records, message) ==
    IF records # <<>> THEN JsonList(records) ELSE JsonError(message)

\* what a handler does: its response, the cache it leaves (c is the cached call
\* it made, or Uncached), the worksheets it fetched
Outcome(r, c, f) ==
    [resp |-> r, cache |-> c.cache, fetched |-> f, call |-> c.call]

----------------------------------------------------------------------------
(* /api/exam-stats and /api/tests (app.py 75-110) *)

ExamStatRecord(row) ==
    [test_id |-> row[1], test_name |-> row[2], n |-> row[3], min |-> row[4],
     max |-> row[5], median |-> row[6], mean |-> row[7], sd |-> row[8]]

TestRecord(row) == [test_id |-> row[1], test_name |-> row[2]]

HasTestId(row) == row[1] # <<>>

get_exam_stats(src) ==
    IF ~Readable(src, "exam_stats") THEN Raises({"exam_stats"})
    ELSE LET kept == SelectSeq(PyTail(GetAllValues(src, "exam_stats")), HasTestId)
         IN  Returns([i \in 1..Len(kept) |-> ExamStatRecord(kept[i])], {"exam_stats"})

get_available_tests(src) ==
    IF ~Readable(src, "exam_stats") THEN Raises({"exam_stats"})
    ELSE LET kept == SelectSeq(PyTail(GetAllValues(src, "exam_stats")), HasTestId)
         IN  Returns([i \in 1..Len(kept) |-> TestRecord(kept[i])], {"exam_stats"})

ExamStats_get(r, st) ==
    LET c == CachedCall(st, r.path, get_exam_stats(st))
    IN  Outcome(IF c.raised THEN ServerError ELSE JsonList(c.value),
                c, c.fetched)

AvailableTests_get(r, st) ==
    LET c == CachedCall(st, r.path, get_available_tests(st))
    IN  Outcome(IF c.raised THEN ServerError ELSE JsonList(c.value),
                c, c.fetched)

----------------------------------------------------------------------------
(* /api/students (app.py 115-144) *)

NA == <<"N", "/", "A">>

StudentRecord(row) ==
    [school_name |-> row[1], student_id |-> row[2], first_name |-> row[3],
     last_name |-> row[4],
     campus |-> IF Len(row) > 4 THEN row[5] ELSE NA,
     med_year |-> IF Len(row) > 5 THEN row[6] ELSE NA]

Students_get(r, st) ==
    LET raw == PyOr(r.student_ids, r.student_id)
        student_ids == IF raw # <<>> THEN Split(raw) ELSE raw
        v == validate_api_key_and_student(r.api_key, r.school_id, student_ids, st)
        f == ValidateFetches(r.api_key, r.school_id, student_ids)
        Keep(row) == /\ row[1] = r.school_id
                     /\ (student_ids = <<>> \/ InList(row[2], student_ids))
    IN  IF v.raised THEN Outcome(ServerError, Uncached(st), f)
        ELSE IF ~v.valid THEN Outcome(JsonError(v.message), Uncached(st), f)
        ELSE IF ~Readable(st, "roster_data")
        THEN Outcome(ServerError, Uncached(st), {"roster_data"})
        ELSE LET kept == SelectSeq(PyTail(GetAllValues(st, "roster_data")), Keep)
             IN  Outcome(
                     ListOrError([i \in 1..Len(kept) |-> StudentRecord(kept[i])],
                                 "No students found."),
                     Uncached(st), {"roster_data"})

----------------------------------------------------------------------------
(* Multi-table fetches, as one step.  A dict is the sequence of its        *)
(* (key, value) pairs in insertion order, which is the order in which the  *)
(* worker threads stored: `order` is that order, a permutation of the      *)
(* tables.  The threads themselves are modelled further down.              *)

ScoreSheets == <<"se_scores", "cas_scores", "nsas_scores">>
DetailSheets == <<"se_scores", "nsas_scores">>

Orders(s) ==
    {p \in [1..Len(s) -> Range(s)] : \A x \in Range(s) : \E i \in 1..Len(s) : p[i] = x}

DictKeys(d) == {d[i][1] : i \in 1..Len(d)}
DictGet(d, k) == (CHOOSE i \in 1..Len(d) : d[i][1] = k)
DictValue(d, k) == d[DictGet(d, k)][2]

\* d[k] = v
DictPut(d, k, v) ==
    IF k \in DictKeys(d) THEN [d EXCEPT ![DictGet(d, k)] = <<k, v>>]
    ELSE Append(d, <<k, v>>)

\* get_student_scores (app.py 150-168): a failed fetch is logged and stores nothing
StudentScoresDict(src, order) ==
    LET ok == SelectSeq(order, LAMBDA t : Readable(src, t))
    IN  [i \in 1..Len(ok) |-> <<ok[i], GetAllValues(src, ok[i])>>]

get_student_scores(src, order) ==
    Returns(StudentScoresDict(src, order), Range(ScoreSheets))

\* get_test_score_details (app.py 261-283): a failed fetch stores []
TestScoreDetailsDict(src, order) ==
    [i \in 1..Len(order) |->
        <<order[i],
          IF Readable(src, order[i]) THEN GetAllValues(src, order[i]) ELSE <<>>>>]

get_test_score_details(src, order) ==
    Returns(TestScoreDetailsDict(src, order), Range(DetailSheets))

----------------------------------------------------------------------------
(* /api/students/scores (app.py 170-224) *)

\* [str(x.strip()) for x in raw.split(",")] if raw else []
StrippedIds(raw) == IF raw # <<>> THEN MapStrip(Split(raw)) ELSE <<>>

\* raw.split(",") if raw, else raw itself (None or "")
SplitIds(raw) == IF raw # <<>> THEN Split(raw) ELSE <<>>

ScoreRecord(row) ==
    [school_name |-> Strip(row[1]), student_id |-> Strip(row[2]),
     test_id |-> Strip(row[3]), test_date |-> row[4], score |-> row[5]]

\* the filter of both score handlers, on the stripped cells of a row
ScoreRowMatches(row, school_id, student_ids, test_ids) ==
    /\ Strip(row[1]) = school_id
    /\ (student_ids = <<>> \/ InList(Strip(row[2]), student_ids))
    /\ (test_ids = <<>> \/ InList(Strip(row[3]), test_ids))

RECURSIVE ScoresOf(_, _, _, _)
ScoresOf(d, school_id, student_ids, test_ids) ==
    IF d = <<>> THEN <<>>
    ELSE LET kept == SelectSeq(PyTail(Head(d)[2]),
                     LAMBDA row : ScoreRowMatches(row, school_id, student_ids, test_ids))
         IN  [i \in 1..Len(kept) |-> ScoreRecord(kept[i])]
             \o ScoresOf(Tail(d), school_id, student_ids, test_ids)

StudentScores_get(r, st, order) ==
    LET student_ids == StrippedIds(PyOr(r.student_ids, r.student_id))
        test_ids == StrippedIds(PyOr(r.test_ids, r.test_id))
        v == validate_api_key_and_student(r.api_key, r.school_id, <<>>, st)
        c == CachedCall(st, r.path, get_student_scores(st, order))
    IN  IF ~v.valid THEN Outcome(JsonError(v.message), Uncached(st), {})
        ELSE Outcome(
                 ListOrError(ScoresOf(c.value, r.school_id, student_ids, test_ids),
                             "No scores found."),
                 c, c.fetched)

----------------------------------------------------------------------------
(* /api/students/tests (app.py 229-255) *)

StudentTests_get(r, st, order) ==
    LET student_ids == StrippedIds(PyOr(r.student_ids, r.student_id))
        v == validate_api_key_and_student(r.api_key, r.school_id, student_ids, st)
        f == ValidateFetches(r.api_key, r.school_id, student_ids)
        \* StudentScores().get().json, inside the same request
        inner == StudentScores_get(r, st, order)
    IN  IF v.raised THEN Outcome(ServerError, Uncached(st), f)
        ELSE IF ~v.valid THEN Outcome(JsonError(v.message), Uncached(st), f)
        ELSE IF inner.resp.kind # "list"
        THEN Outcome(JsonError("Failed to fetch student scores."),
                     inner, f \cup inner.fetched)
        ELSE Outcome(
                 ListOrError(SelectSeq(inner.resp.records,
                                       LAMBDA rec : InList(rec.student_id, student_ids)),
                             "No tests found for the specified students."),
                 inner, f \cup inner.fetched)

----------------------------------------------------------------------------
(* /api/students/scores/details (app.py 285-335) *)

\* the extra named columns of a row: (header, cell) where both are non-empty
ExtraColumns(headers, row) ==
    LET idx == SelectSeq([i \in 1..(Len(row) - 5) |-> i + 5],
                         LAMBDA i : headers[i] # <<>> /\ row[i] # <<>>)
    IN  [j \in 1..Len(idx) |-> <<headers[idx[j]], row[idx[j]]>>]

DetailRecord(headers, row) ==
    [school_name |-> Strip(row[1]), student_id |-> Strip(row[2]),
     test_id |-> Strip(row[3]), test_date |-> row[4], score |-> row[5],
     extra |-> ExtraColumns(headers, row)]

RECURSIVE DetailsOf(_, _, _, _)
DetailsOf(d, school_id, student_ids, test_ids) ==
    IF d = <<>> THEN <<>>
    ELSE LET kept == SelectSeq(PyTail(Head(d)[2]),
                     LAMBDA row : ScoreRowMatches(row, school_id, student_ids, test_ids))
         IN  [i \in 1..Len(kept) |-> DetailRecord(Head(d)[2][1], kept[i])]
             \o DetailsOf(Tail(d), school_id, student_ids, test_ids)

TestScoreDetails_get(r, st, order) ==
    LET student_ids == SplitIds(PyOr(r.student_ids, r.student_id))
        test_ids == SplitIds(PyOr(r.test_ids, r.test_id))
        v == validate_api_key_and_student(r.api_key, r.school_id, student_ids, st)
        f == ValidateFetches(r.api_key, r.school_id, student_ids)
        c == CachedCall(st, r.path, get_test_score_details(st, order))
    IN  IF v.raised THEN Outcome(ServerError, Uncached(st), f)
        ELSE IF ~v.valid THEN Outcome(JsonError(v.message), Uncached(st), f)
        \* headers = data[0] raises IndexError on an empty table
        ELSE IF \E i \in 1..Len(c.value) : c.value[i][2] = <<>>
        THEN Outcome(ServerError, c, f \cup c.fetched)
        ELSE Outcome(
                 ListOrError(DetailsOf(c.value, r.school_id, student_ids, test_ids),
                             "No test details found."),
                 c, f \cup c.fetched)

----------------------------------------------------------------------------
(* /api/students/usmle-results (app.py 340-381) *)

UsmleRecord(row) ==
    [student_id |-> row[2], test_id |-> row[3], test_date |-> row[4],
     result |-> row[5]]

get_all_usmle_results(src) ==
    IF ~Readable(src, "usmle_results") THEN Raises({"usmle_results"})
    ELSE LET data == GetAllValues(src, "usmle_results")
         IN  Returns(IF Len(data) < 2 THEN <<>>
                     ELSE [i \in 1..Len(data) - 1 |-> UsmleRecord(data[i + 1])],
                     {"usmle_results"})

USMLEResults_get(r, st) ==
    LET student_ids == StrippedIds(PyOr(r.student_ids, r.student_id))
        v == validate_api_key_and_student(r.api_key, r.school_id, student_ids, st)
        f == ValidateFetches(r.api_key, r.school_id, student_ids)
        c == CachedCall(st, r.path, get_all_usmle_results(st))
    IN  IF v.raised THEN Outcome(ServerError, Uncached(st), f)
        ELSE IF ~v.valid THEN Outcome(JsonError(v.message), Uncached(st), f)
        ELSE IF c.raised THEN Outcome(ServerError, c, f \cup c.fetched)
        ELSE Outcome(
                 ListOrError(SelectSeq(c.value,
                                 LAMBDA rec : student_ids = <<>>
                                              \/ InList(rec.student_id, student_ids)),
                             "No USMLE results found for the specified students."),
                 c, f \cup c.fetched)

----------------------------------------------------------------------------
(* /api/health and / (app.py 386-410) *)

HealthCheck_get(r, st) == Outcome(JsonObject("ok"), Uncached(st), {})
home(r, st) == Outcome(JsonObject("Flask API is running!"), Uncached(st), {})

----------------------------------------------------------------------------
(* Table contents used by the specifications *)

H == <<"h">>
Hdr5 == <<H, H, H, H, H>>
Hdr6 == <<H, H, H, H, H, <<"x">>>>
Hdr8 == <<H, H, H, H, H, H, H, H>>

S1 == <<"1">>
S2 == <<"2">>
S3 == <<"3">>
T7 == <<"7">>
T8 == <<"8">>
Date == <<"d">>
Pts == <<"p">>

Roster0 == <<RosterHeader>>
Roster1 == <<RosterHeader, RosterRow(MedSchoolA, S1), RosterRow(MedSchoolA, S2),
             RosterRow(MedSchoolB, S3)>>

Exam1 == <<Hdr8, <<T7, <<"n">>, Pts, Pts, Pts, Pts, Pts, Pts>>,
           <<<<>>, <<"n">>, Pts, Pts, Pts, Pts, Pts, Pts>>>>
Exam2 == <<Hdr8, <<T8, <<"n">>, Pts, Pts, Pts, Pts, Pts, Pts>>>>

Se0 == <<Hdr6>>
Se1 == <<Hdr6, <<MedSchoolA, S1, T7, Date, Pts, <<"9">>>>,
         <<MedSchoolB, S3, T7, Date, Pts, <<>>>>>>
Se2 == <<Hdr6, <<MedSchoolA, S2, T7, Date, Pts, <<>>>>>>

Cas1 == <<Hdr5, <<MedSchoolA, S2, T8, Date, Pts>>>>

\* cells with surrounding blanks, which the score handlers strip
Nsas1 == <<Hdr5, <<<<"A", " ">>, <<" ", "1">>, T8, Date, Pts>>,
           <<MedSchoolB, S3, T8, Date, Pts>>>>

Usmle0 == <<Hdr5>>
Usmle1 == <<Hdr5, <<MedSchoolA, S1, T7, Date, Pts>>,
            <<MedSchoolB, S3, T7, Date, Pts>>>>
Usmle2 == <<Hdr5, <<MedSchoolA, S2, T8, Date, Pts>>>>

BaseTables ==
    [t \in Sheets |->
        CASE t = "roster_data" -> Roster1
          [] t = "exam_stats" -> Exam1
          [] t = "se_scores" -> Se1
          [] t = "cas_scores" -> Cas1
          [] t = "nsas_scores" -> Nsas1
          [] t = "usmle_results" -> Usmle1]

\* the same spreadsheet with no students, no standard-exam scores, no results
SparseTables ==
    [BaseTables EXCEPT !["roster_data"] = Roster0, !["se_scores"] = Se0,
                       !["usmle_results"] = Usmle0]

\* a later edit of a worksheet
Edited(t) ==
    CASE t = "exam_stats" -> Exam2
      [] t = "se_scores" -> Se2
      [] t = "usmle_results" -> Usmle2
      [] OTHER -> BaseTables[t]

----------------------------------------------------------------------------
(* Requests *)

NoRequest ==
    [path |-> "", api_key |-> "", school_id |-> None, student_ids |-> None,
     student_id |-> None, test_ids |-> None, test_id |-> None]

Request(path, api_key, school_id, student_ids, student_id, test_ids, test_id) ==
    [path |-> path, api_key |-> api_key, school_id |-> school_id,
     student_ids |-> student_ids, student_id |-> student_id,
     test_ids |-> test_ids, test_id |-> test_id]

\* raw values of the student_id / student_ids parameter: 1 | 1,2 | 1, 2 | 3
IdStrings == {<<"1">>, <<"1", ",", "2">>, <<"1", ",", " ", "2">>, <<"3">>}
\* raw values of the test_id / test_ids parameter: 7, 8
TestStrings == {<<"7", ",", " ", "8">>}

\* either spelling of a parameter, or neither
OneOf(values) ==
    {<<None, None>>} \cup {<<v, None>> : v \in values} \cup {<<None, v>> : v \in values}

\* who asks, and for which school
Clients == {<<KeyA, MedSchoolA>>, <<KeyA, MedSchoolB>>, <<KeyMaster, MedSchoolA>>,
            <<KeyMaster, MedSchoolB>>, <<KeyBogus, MedSchoolA>>}

\* student and test parameters together: one of them, or both
ScoreParams ==
    {<<ids, <<None, None>>>> : ids \in OneOf(IdStrings)}
    \cup {<<<<None, None>>, tids>> : tids \in OneOf(TestStrings)}
    \cup {<<<<None, <<"1">>>>, <<<<"7", ",", " ", "8">>, None>>>>}

PlainRequests(path) == {Request(path, "", None, None, None, None, None)}

StudentRequests(path) ==
    {Request(path, c[1], c[2], ids[1], ids[2], None, None) :
        c \in Clients, ids \in OneOf(IdStrings)}

ScoreRequests(path) ==
    {Request(path, c[1], c[2], p[1][1], p[1][2], p[2][1], p[2][2]) :
        c \in Clients, p \in ScoreParams}

AllRequests(path) ==
    CASE path \in {"/api/exam-stats", "/api/tests", "/api/health", "/"} ->
            PlainRequests(path)
      [] path \in {"/api/students", "/api/students/usmle-results"} ->
            StudentRequests(path)
      [] OTHER -> ScoreRequests(path)

----------------------------------------------------------------------------
(* The server: one action per endpoint, the whole handler in one step *)

St == [tables |-> tables, down |-> down, now |-> now, cache |-> cache]

Serve(r, out) ==
    /\ req' = r
    /\ resp' = out.resp
    /\ cache' = out.cache
    /\ fetched' = out.fetched
    /\ ccall' = out.call
    /\ served' = served + 1
    /\ UNCHANGED <<tables, down, now, vcall, fetchVars>>

\* the requests of the cache specification: two clients with different filters on the endpoints that reach
\* get_student_scores, one client on the other key-gated endpoints
CacheRequests(path) ==
    CASE path \in {"/api/exam-stats", "/api/tests"} -> PlainRequests(path)
      [] path \in {"/api/students/scores", "/api/students/tests"} ->
            {Request(path, KeyA, MedSchoolA, None, <<"1">>, None, None),
             Request(path, KeyMaster, MedSchoolA, <<"2">>, None, None, None)}
      [] OTHER -> {Request(path, KeyA, MedSchoolA, None, <<"1">>, None, None)}

\* the workers of a fetch store in the order they were started
StartOrder(sheets) == {sheets}

\* the order in which the workers of a fetch store; no fetch on a live entry
StoreOrders(path, sheets, load) ==
    IF CacheLive(cache, CacheKey(path), now) THEN {sheets}
    ELSE IF load = "cache" THEN StartOrder(sheets) ELSE Orders(sheets)

\* the requests the clients of a specification send to a path
RequestsOf(load, path) ==
    IF load = "cache" THEN CacheRequests(path) ELSE AllRequests(path)

ExamStats(load) ==
    /\ served < MaxRequests
    /\ \E r \in RequestsOf(load, "/api/exam-stats") : Serve(r, ExamStats_get(r, St))

AvailableTests(load) ==
    /\ served < MaxRequests
    /\ \E r \in RequestsOf(load, "/api/tests") : Serve(r, AvailableTests_get(r, St))

Students(load) ==
    /\ served < MaxRequests
    /\ \E r \in RequestsOf(load, "/api/students") : Serve(r, Students_get(r, St))

StudentScores(load) ==
    /\ served < MaxRequests
    /\ \E r \in RequestsOf(load, "/api/students/scores") :
         \E o \in StoreOrders(r.path, ScoreSheets, load) :
            Serve(r, StudentScores_get(r, St, o))

StudentTests(load) ==
    /\ served < MaxRequests
    /\ \E r \in RequestsOf(load, "/api/students/tests") :
         \E o \in StoreOrders(r.path, ScoreSheets, load) :
            Serve(r, StudentTests_get(r, St, o))

TestScoreDetails(load) ==
    /\ served < MaxRequests
    /\ \E r \in RequestsOf(load, "/api/students/scores/details") :
         \E o \in StoreOrders(r.path, DetailSheets, load) :
            Serve(r, TestScoreDetails_get(r, St, o))

USMLEResults(load) ==
    /\ served < MaxRequests
    /\ \E r \in RequestsOf(load, "/api/students/usmle-results") :
            Serve(r, USMLEResults_get(r, St))

HealthCheck(load) ==
    /\ served < MaxRequests
    /\ \E r \in RequestsOf(load, "/api/health") : Serve(r, HealthCheck_get(r, St))

Home(load) ==
    /\ served < MaxRequests
    /\ \E r \in RequestsOf(load, "/") : Serve(r, home(r, St))

NoCall ==
    [api_key |-> "", school_id |-> None, student_ids |-> <<>>, called |-> FALSE,
     result |-> Verdict(TRUE, "")]

NoWorkers == [t \in {} |-> ""]

InitIdle ==
    /\ now = 0
    /\ cache = <<>>
    /\ req = NoRequest
    /\ resp = JsonObject("")
    /\ fetched = {}
    /\ ccall = NoCachedCall
    /\ served = 0
    /\ vcall = NoCall
    /\ fcall = ""
    /\ mainPc = "idle"
    /\ started = 0
    /\ wPc = NoWorkers
    /\ wData = NoWorkers
    /\ wFailed = {}
    /\ lock = ""
    /\ sheets_data = <<>>
    /\ ret = <<>>

\* the server over a spreadsheet that does not change, less than 300 s long
Init ==
    /\ tables \in {BaseTables, SparseTables}
    /\ down \in {d \in SUBSET Sheets : Cardinality(d) <= 1}
    /\ InitIdle

Next ==
    \/ ExamStats("all")
    \/ AvailableTests("all")
    \/ Students("all")
    \/ StudentScores("all")
    \/ StudentTests("all")
    \/ TestScoreDetails("all")
    \/ USMLEResults("all")
    \/ HealthCheck("all")
    \/ Home("all")

Spec == Init /\ [][Next]_vars

----------------------------------------------------------------------------
(* validate_api_key_and_student called directly, over every small roster *)

RosterUniverse == {RosterRow(s, i) : s \in {MedSchoolA, MedSchoolB}, i \in {S1, S2}}
IdUniverse == {S1, S2, <<" ", "1">>}

\* the worksheet is empty, or a first row (skipped as the header, whatever it
\* holds) followed by data rows
Rosters ==
    {<<>>} \cup
    {<<h>> \o rows : h \in {RosterHeader, RosterRow(MedSchoolA, S1)},
                     rows \in SeqUpTo(RosterUniverse, MaxRosterRows)}

InitValidate ==
    /\ tables \in {[BaseTables EXCEPT !["roster_data"] = ro] : ro \in Rosters}
    /\ down \in {{}, {"roster_data"}}
    /\ InitIdle

Validate ==
    /\ ~vcall.called
    /\ \E k \in {KeyA, KeyB, KeyMaster, KeyBogus} :
       \E s \in {MedSchoolA, MedSchoolB, MasterKey} :
       \E ids \in SeqUpTo(IdUniverse, MaxIds) :
          /\ vcall' = [api_key |-> k, school_id |-> s, student_ids |-> ids,
                       called |-> TRUE,
                       result |-> validate_api_key_and_student(k, s, ids, St)]
          /\ UNCHANGED <<tables, down, serverVars, fetchVars>>

NextValidate == Validate

SpecValidate == InitValidate /\ [][NextValidate]_vars

----------------------------------------------------------------------------
(* The server over a spreadsheet that is edited and fails while time passes *)

TickSteps == {150}

Tick ==
    \E d \in TickSteps :
        /\ now + d <= MaxTime
        /\ now' = now + d
        /\ UNCHANGED <<tables, down, cache, req, resp, fetched, ccall, served,
                       vcall, fetchVars>>

EditedSheets == {"exam_stats", "se_scores", "usmle_results"}

\* somebody edits a worksheet
SourceEdit ==
    \E t \in EditedSheets :
        /\ tables[t] # Edited(t)
        /\ tables' = [tables EXCEPT ![t] = Edited(t)]
        /\ UNCHANGED <<down, serverVars, vcall, fetchVars>>

FailingSheets == {"exam_stats", "se_scores"}

\* a worksheet stops being readable (one at a time), or is readable again
SourceFail ==
    \E t \in FailingSheets :
        /\ down = {}
        /\ down' = {t}
        /\ UNCHANGED <<tables, serverVars, vcall, fetchVars>>

SourceRecover ==
    /\ down # {}
    /\ down' = {}
    /\ UNCHANGED <<tables, serverVars, vcall, fetchVars>>

InitCache ==
    /\ tables = BaseTables
    /\ down = {}
    /\ InitIdle

NextCache ==
    \/ ExamStats("cache")
    \/ AvailableTests("cache")
    \/ StudentScores("cache")
    \/ StudentTests("cache")
    \/ TestScoreDetails("cache")
    \/ USMLEResults("cache")
    \/ Tick
    \/ SourceEdit
    \/ SourceFail
    \/ SourceRecover

SpecCache == InitCache /\ [][NextCache]_vars

\* C1: validate_api_key_and_student returns the first applicable outcome of:
\* InvalidKey if the key is not registered; AccessDenied if its entry is
\* neither MasterKey nor the requested school; UnknownStudent if student_ids is
\* non-empty and some requested id is not the student id of a roster row (a row
\* after the first) of the requested school; Ok otherwise.  It returns nothing
\* (raises) only when it has to read the roster and the roster cannot be read.
C1_FirstApplicable ==
    LET roster == tables["roster_data"]
        InSchool(sid) == \E j \in 2..Len(roster) :
                            roster[j][1] = vcall.school_id /\ roster[j][2] = sid
        keyOk == vcall.api_key \in DOMAIN API_KEYS
        schoolOk == API_KEYS[vcall.api_key] \in {MasterKey, vcall.school_id}
        expected ==
            IF ~keyOk THEN Verdict(FALSE, "Invalid API key.")
            ELSE IF ~schoolOk THEN Verdict(FALSE, "Access denied.")
            ELSE IF Len(vcall.student_ids) > 0
                    /\ \E i \in 1..Len(vcall.student_ids) : ~InSchool(vcall.student_ids[i])
            THEN Verdict(FALSE,
                   "One or more students do not belong to the provided school.")
            ELSE Verdict(TRUE, "")
    IN  vcall.called =>
           IF vcall.result.raised
           THEN keyOk /\ schoolOk /\ Len(vcall.student_ids) > 0 /\ "roster_data" \in down
           ELSE vcall.result = expected

\* the master key asks for students of a school it is not bound to, and passes
C1_Witness ==
    /\ vcall.called
    /\ vcall.api_key = KeyMaster
    /\ vcall.school_id = MedSchoolB
    /\ Len(vcall.student_ids) = 2
    /\ vcall.result.valid


----------------------------------------------------------------------------
(* Claims about the handlers *)

GatedPaths == {"/api/students", "/api/students/scores", "/api/students/tests",
               "/api/students/scores/details", "/api/students/usmle-results"}

\* flask_restful's dispatch of a request to the resource registered for its path
Dispatch(r, st, order) ==
    CASE r.path = "/api/exam-stats" -> ExamStats_get(r, st)
      [] r.path = "/api/tests" -> AvailableTests_get(r, st)
      [] r.path = "/api/students" -> Students_get(r, st)
      [] r.path = "/api/students/scores" -> StudentScores_get(r, st, order)
      [] r.path = "/api/students/tests" -> StudentTests_get(r, st, order)
      [] r.path = "/api/students/scores/details" -> TestScoreDetails_get(r, st, order)
      [] r.path = "/api/students/usmle-results" -> USMLEResults_get(r, st)
      [] r.path = "/api/health" -> HealthCheck_get(r, st)
      [] OTHER -> home(r, st)

SheetsOf(path) ==
    IF path = "/api/students/scores/details" THEN DetailSheets ELSE ScoreSheets

\* the student ids a handler passes to validate_api_key_and_student
ValidatedIds(r) ==
    CASE r.path \in {"/api/students", "/api/students/scores/details"} ->
            SplitIds(PyOr(r.student_ids, r.student_id))
      [] r.path = "/api/students/scores" -> <<>>
      [] OTHER -> StrippedIds(PyOr(r.student_ids, r.student_id))

\* the request passed validation
Validated(r) ==
    validate_api_key_and_student(r.api_key, r.school_id, ValidatedIds(r), St).valid

\* the records a handler makes of the rows of school X in the worksheets it reads
RowsOfSchool(t, X) == {row \in Range(PyTail(tables[t])) : Strip(row[1]) = X}

RecordsOfSchool(path, X) ==
    CASE path = "/api/students" ->
            {StudentRecord(row) : row \in RowsOfSchool("roster_data", X)}
      [] path = "/api/students/usmle-results" ->
            {UsmleRecord(row) : row \in RowsOfSchool("usmle_results", X)}
      [] path = "/api/students/scores/details" ->
            UNION {{DetailRecord(tables[t][1], row) : row \in RowsOfSchool(t, X)} :
                      t \in Range(DetailSheets)}
      [] OTHER ->
            UNION {{ScoreRecord(row) : row \in RowsOfSchool(t, X)} :
                      t \in Range(ScoreSheets)}

\* C2: a list returned on a key-gated endpoint to a key bound to school X holds
\* only records of source rows whose school is X
C2_SchoolScoping ==
    (/\ req.path \in GatedPaths
     /\ req.api_key \in DOMAIN API_KEYS
     /\ API_KEYS[req.api_key] # MasterKey
     /\ resp.kind = "list")
    => \A i \in 1..Len(resp.records) :
          resp.records[i] \in RecordsOfSchool(req.path, API_KEYS[req.api_key])

\* C3: every response has HTTP status 200, also when a worksheet cannot be read
\* during validation or during the handler's fetch; a request that fails
\* validation gets the object {"error": message}
C3_ErrorsAre200 ==
    /\ resp.status = 200
    /\ (req.path \in GatedPaths /\ ~Validated(req)) => resp.kind = "error"

\* the response of the two score endpoints over the worksheets that can be read,
\* stored in the given order
RowsOfReadable(r, order) ==
    LET ok == SelectSeq(order, LAMBDA t : Readable(St, t))
        d == [i \in 1..Len(ok) |-> <<ok[i], tables[ok[i]]>>]
    IN  IF r.path = "/api/students/scores"
        THEN ListOrError(
                 ScoresOf(d, r.school_id,
                          StrippedIds(PyOr(r.student_ids, r.student_id)),
                          StrippedIds(PyOr(r.test_ids, r.test_id))),
                 "No scores found.")
        ELSE ListOrError(
                 DetailsOf(d, r.school_id,
                           SplitIds(PyOr(r.student_ids, r.student_id)),
                           SplitIds(PyOr(r.test_ids, r.test_id))),
                 "No test details found.")

\* C6: when a worksheet of a multi-table fetch cannot be read, a validated
\* request to /api/students/scores or /api/students/scores/details still gets
\* exactly the matching rows of the worksheets that could be read
C6_PartialFetchServed ==
    (/\ req.path \in {"/api/students/scores", "/api/students/scores/details"}
     /\ Validated(req)
     /\ down \cap Range(SheetsOf(req.path)) # {}
     /\ "roster_data" \notin down)
    => \E o \in Orders(SheetsOf(req.path)) : resp = RowsOfReadable(req, o)

\* C7: a validated request to a key-gated endpoint gets a non-empty list of
\* records or the object {"error": ...}, with status 200; never an empty list
C7_ListOrSentinel ==
    (req.path \in GatedPaths /\ Validated(req))
    => /\ resp.status = 200
       /\ \/ resp.kind = "list" /\ resp.records # <<>>
          \/ resp.kind = "error"

\* the set of trimmed ids of a raw parameter value
TrimmedSet(raw) == IF raw = <<>> THEN {} ELSE {Strip(x) : x \in Range(Split(raw))}

\* the requests that differ from r only in the spelling of the parameter names
\* or in blanks around the ids
Respellings(r) ==
    {q \in AllRequests(r.path) :
        /\ q.api_key = r.api_key
        /\ q.school_id = r.school_id
        /\ TrimmedSet(PyOr(q.student_ids, q.student_id))
              = TrimmedSet(PyOr(r.student_ids, r.student_id))
        /\ TrimmedSet(PyOr(q.test_ids, q.test_id))
              = TrimmedSet(PyOr(r.test_ids, r.test_id))}

\* C10: on a key-gated endpoint, asking again with the other spelling of a
\* parameter name, or with blanks around the ids, gets the same response
C10_SpellingIrrelevant ==
    req.path \in GatedPaths
    => \A q \in Respellings(req) :
          \E o \in Orders(SheetsOf(req.path)) : Dispatch(q, St, o).resp = resp

----------------------------------------------------------------------------
(* Claims about the cache *)

\* the endpoints that reach get_student_scores
ScorePaths == {"/api/students/scores", "/api/students/tests"}

\* the worksheets the cached function behind a path reads
ProducerSheets(path) ==
    CASE path \in {"/api/exam-stats", "/api/tests"} -> {"exam_stats"}
      [] path \in ScorePaths -> Range(ScoreSheets)
      [] path = "/api/students/scores/details" -> Range(DetailSheets)
      [] OTHER -> {"usmle_results"}

\* what the cached function behind a path can do on the spreadsheet as it is now
Fresh(path) ==
    CASE path = "/api/exam-stats" -> {get_exam_stats(St)}
      [] path = "/api/tests" -> {get_available_tests(St)}
      [] path \in ScorePaths ->
            {get_student_scores(St, o) : o \in Orders(ScoreSheets)}
      [] path = "/api/students/scores/details" ->
            {get_test_score_details(St, o) : o \in Orders(DetailSheets)}
      [] OTHER -> {get_all_usmle_results(St)}

\* a request is answered, and its handler calls its cached function
CachedCallStep == served' = served + 1 /\ ccall'.made

C4_Step ==
    LET key == CacheKey(req'.path)
    IN  /\ CachedCallStep =>
             IF key \in DOMAIN cache
                /\ now - (cache[key].expires - CACHE_TIMEOUT) < CACHE_TIMEOUT
             THEN /\ ~ccall'.raised
                  /\ ccall'.value = cache[key].value
                  /\ fetched' \cap ProducerSheets(req'.path) = {}
                  /\ cache' = cache
             ELSE /\ ProducerSheets(req'.path) \subseteq fetched'
                  /\ \E f \in Fresh(req'.path) :
                        /\ ccall'.raised = f.raised
                        /\ IF f.raised THEN cache' = cache
                           ELSE /\ ccall'.value = f.value
                                /\ key \in DOMAIN cache'
                                /\ cache'[key] = [value |-> f.value,
                                                  expires |-> now + CACHE_TIMEOUT]
                                /\ \A k \in DOMAIN cache \ {key} :
                                      k \in DOMAIN cache' /\ cache'[k] = cache[k]
        /\ \A k \in DOMAIN cache :
              cache[k].expires > now => k \in DOMAIN cache' /\ cache'[k] = cache[k]

C8_Step ==
    (/\ CachedCallStep
     /\ req'.path \in ScorePaths
     /\ \E p \in ScorePaths : CacheLive(cache, CacheKey(p), now))
    => /\ fetched' \cap Range(ScoreSheets) = {}
       /\ \E p \in ScorePaths :
             /\ CacheLive(cache, CacheKey(p), now)
             /\ ccall'.value = cache[CacheKey(p)].value
       /\ Cardinality({p \in ScorePaths : CacheKey(p) \in DOMAIN cache'}) = 1

\* C8: the cache holds one entry for get_student_scores, whatever endpoint and
\* arguments it is reached with: while a live entry of it exists, a request to
\* /api/students/scores or /api/students/tests is answered from that entry,
\* without a new fetch
C8_OneEntryPerOperation == [][C8_Step]_vars

----------------------------------------------------------------------------
(* The worker threads of a multi-table fetch (app.py 152-168, 263-283) *)

FetchSheets(f) == IF f = "get_student_scores" THEN ScoreSheets ELSE DetailSheets

\* the cached function is entered: sheets_data = {}, lock = threading.Lock()
Call ==
    \E f \in {"get_student_scores", "get_test_score_details"} :
        /\ mainPc \in {"idle", "returned"}
        /\ fcall' = f
        /\ mainPc' = "starting"
        /\ started' = 0
        /\ wPc' = [t \in Range(FetchSheets(f)) |-> "new"]
        /\ wData' = [t \in Range(FetchSheets(f)) |-> <<>>]
        /\ wFailed' = {}
        /\ lock' = ""
        /\ sheets_data' = <<>>
        /\ ret' = <<>>
        /\ UNCHANGED <<tables, down, serverVars, vcall>>

\* executor.map submits / thread.start() starts the next worker, in list order
StartWorker ==
    /\ mainPc = "starting"
    /\ started < Len(FetchSheets(fcall))
    /\ started' = started + 1
    /\ wPc' = [wPc EXCEPT ![FetchSheets(fcall)[started + 1]] = "fetch"]
    /\ mainPc' = IF started + 1 = Len(FetchSheets(fcall)) THEN "joining" ELSE "starting"
    /\ UNCHANGED <<tables, down, serverVars, vcall, fcall, wData, wFailed, lock,
                   sheets_data, ret>>

\* data = client.open_by_key(...).worksheet(sheet).get_all_values(), or it raises
WorkerFetch(t) ==
    /\ wPc[t] = "fetch"
    /\ IF Readable(St, t)
       THEN /\ wData' = [wData EXCEPT ![t] = GetAllValues(St, t)]
            /\ wPc' = [wPc EXCEPT ![t] = IF fcall = "get_student_scores"
                                          THEN "acquire" ELSE "store"]
            /\ UNCHANGED wFailed
       ELSE /\ wFailed' = wFailed \cup {t}
            /\ wPc' = [wPc EXCEPT ![t] = "except"]
            /\ UNCHANGED wData
    /\ UNCHANGED <<tables, down, serverVars, vcall, fcall, mainPc, started, lock,
                   sheets_data, ret>>

\* with lock:
WorkerAcquire(t) ==
    /\ wPc[t] = "acquire"
    /\ lock = ""
    /\ lock' = t
    /\ wPc' = [wPc EXCEPT ![t] = "store"]
    /\ UNCHANGED <<tables, down, serverVars, vcall, fcall, mainPc, started, wData,
                   wFailed, sheets_data, ret>>

\* sheets_data[sheet] = data (one dict store; `data if data else []` is data)
WorkerStore(t) ==
    /\ wPc[t] = "store"
    /\ sheets_data' = DictPut(sheets_data, t, wData[t])
    /\ wPc' = [wPc EXCEPT ![t] = IF fcall = "get_student_scores"
                                  THEN "release" ELSE "done"]
    /\ UNCHANGED <<tables, down, serverVars, vcall, fcall, mainPc, started, wData,
                   wFailed, lock, ret>>

\* the with block is left
WorkerRelease(t) ==
    /\ wPc[t] = "release"
    /\ lock' = ""
    /\ wPc' = [wPc EXCEPT ![t] = "done"]
    /\ UNCHANGED <<tables, down, serverVars, vcall, fcall, mainPc, started, wData,
                   wFailed, sheets_data, ret>>

\* except Exception: print; get_test_score_details also stores []
WorkerExcept(t) ==
    /\ wPc[t] = "except"
    /\ sheets_data' = IF fcall = "get_student_scores" THEN sheets_data
                      ELSE DictPut(sheets_data, t, <<>>)
    /\ wPc' = [wPc EXCEPT ![t] = "done"]
    /\ UNCHANGED <<tables, down, serverVars, vcall, fcall, mainPc, started, wData,
                   wFailed, lock, ret>>

\* the executor's with block is left after only the first worker has finished
AllJoinedFirstOnly == wPc[FetchSheets(fcall)[1]] = "done"

\* ThreadPoolExecutor.__exit__ (shutdown(wait=True)) / thread.join() of every thread
AllJoined == \A t \in DOMAIN wPc : wPc[t] = "done"

\* return sheets_data
Return ==
    /\ mainPc = "joining"
    /\ AllJoined
    /\ mainPc' = "returned"
    /\ ret' = sheets_data
    /\ UNCHANGED <<tables, down, serverVars, vcall, fcall, started, wPc, wData,
                   wFailed, lock, sheets_data>>

InitFetch ==
    /\ tables \in {BaseTables, SparseTables}
    /\ down \in SUBSET Range(ScoreSheets)
    /\ InitIdle

NextFetch ==
    \/ Call
    \/ StartWorker
    \/ \E t \in DOMAIN wPc : WorkerFetch(t)
    \/ \E t \in DOMAIN wPc : WorkerAcquire(t)
    \/ \E t \in DOMAIN wPc : WorkerStore(t)
    \/ \E t \in DOMAIN wPc : WorkerRelease(t)
    \/ \E t \in DOMAIN wPc : WorkerExcept(t)
    \/ Return

SpecFetch == InitFetch /\ [][NextFetch]_vars

\* C5: the dict a multi-table fetch returns has a key for every requested
\* worksheet, and an empty list for each worksheet whose fetch failed
C5_KeyForEveryTable ==
    mainPc = "returned"
    => /\ DictKeys(ret) = Range(FetchSheets(fcall))
       /\ \A t \in wFailed : DictValue(ret, t) = <<>>

\* the dict the one-step model of the fetch gives for some order of the stores
OneStepDicts ==
    IF fcall = "get_student_scores"
    THEN {StudentScoresDict(St, o) : o \in Orders(ScoreSheets)}
    ELSE {TestScoreDetailsDict(St, o) : o \in Orders(DetailSheets)}

\* C9: whatever the interleaving of the workers, the fetch returns only after
\* every worker has finished; the returned dict holds, for each worksheet whose
\* fetch succeeded, exactly the rows its worker read, under one key; nothing is
\* written to the dict after it has been returned
C9_JoinedBeforeReturn ==
    mainPc = "returned"
    => /\ \A t \in DOMAIN wPc : wPc[t] = "done"
       /\ lock = ""
       /\ \A t \in DOMAIN wPc \ wFailed :
             /\ Cardinality({i \in 1..Len(ret) : ret[i][1] = t}) = 1
             /\ DictValue(ret, t) = wData[t]
             /\ wData[t] = tables[t]
       /\ sheets_data = ret
       /\ ret \in OneStepDicts

\* the worker started last stored first, and all three fetches succeeded
C9_Witness ==
    /\ mainPc = "returned"
    /\ fcall = "get_student_scores"
    /\ wFailed = {}
    /\ Len(ret) = 3
    /\ ret[1][1] = "nsas_scores"

====
